---- MODULE Spec2Model ----
(***************************************************************************)
(* A model of the math-program expression library: the Expr tree, its      *)
(* algebraic constructors, the derived canonical order and the simplifier  *)
(* of src/src/lib.rs, and, further down, the operators, the simplifier and *)
(* the derivative of the module tree src/src/lib/.                         *)
(*                                                                         *)
(* An expression is a tuple whose first element is the variant's name:     *)
(*   <<"Const", n>>  <<"X">>  <<"Sum", v>>  <<"Prod", v>>  <<"Neg", e>>    *)
(*   <<"Recip", e>>  <<"Pow", a, b>>                                       *)
(* where v is a sequence of expressions (Vec<Expr>).  Rust vectors are     *)
(* 0-based; the sequences here are 1-based, so a Rust index i is i + 1.    *)
(***************************************************************************)
EXTENDS Integers, Sequences, FiniteSets, TLC

VARIABLES e, inp, arg, op, out, n, version

vars == <<e, inp, arg, op, out, n, version>>

(***************************************************************************)
(* Bounds of the model.                                                    *)
(***************************************************************************)
\* Number of constructor operations applied to the expression under construction.
MaxOps == 3
\* like_terms_with is queried on expressions built with at most this many operations.
MaxQueryOps == 2

\* The integer literals a caller builds expressions from.
ConstVals == {0, 5}

\* For the module tree src/src/lib/: the number of calls with two operands,
\* the number of calls in all (the last ones have one operand), and the
\* integer literals.
MaxModOps == 2
MaxUnaryOps == 3
ModConstVals == {0, 1, 5}

\* Where the width of Num matters: the number of bits of Num (isize has 64;
\* the arithmetic is scaled down) and the number of constructor calls.
NumBits == 8
MaxSizedOps == 2
\* Number of calls that build or differentiate an expression with function variants.
MaxFnOps == 2
\* Number of constructor calls before and between the rewriting functions run step by step.
MaxLoopOps == 2

(***************************************************************************)
(* The Expr type (lib.rs:15-32).                                           *)
(***************************************************************************)
Const(c) == <<"Const", c>>
X == <<"X">>
Sum(v) == <<"Sum", v>>
Prod(v) == <<"Prod", v>>
Neg(x) == <<"Neg", x>>
Recip(x) == <<"Recip", x>>
Pow(a, b) == <<"Pow", a, b>>

Tag(x) == x[1]
IsConst(x) == Tag(x) = "Const"
IsSum(x) == Tag(x) = "Sum"
IsProd(x) == Tag(x) = "Prod"
IsNeg(x) == Tag(x) = "Neg"
IsRecip(x) == Tag(x) = "Recip"
IsPow(x) == Tag(x) = "Pow"

(***************************************************************************)
(* Vec helpers.                                                            *)
(***************************************************************************)
\* Vec::remove(i): the vector without its i-th element.
RemoveAt(v, i) == SubSeq(v, 1, i - 1) \o SubSeq(v, i + 1, Len(v))

\* v with its i-th element replaced by x.
SetAt(v, i, x) == [v EXCEPT ![i] = x]

\* Vec::contains.
Contains(v, x) == \E i \in 1..Len(v) : v[i] = x

\* Vec::retain(|x| !matches!(x, Expr::Const(_))).
RetainNonConst(v) == SelectSeq(v, LAMBDA x : ~IsConst(x))

\* iter().find(|x| matches!(x, Expr::Const(_))): the index of the first Const, 0 if none.
FirstConst(v) ==
    IF \E i \in 1..Len(v) : IsConst(v[i])
    THEN CHOOSE i \in 1..Len(v) : IsConst(v[i]) /\ \A k \in 1..(i - 1) : ~IsConst(v[k])
    ELSE 0

(***************************************************************************)
(* The canonical order: #[derive(PartialOrd, Ord)] on Expr.  Variants are  *)
(* ordered by declaration, payloads lexicographically.  The Expr of        *)
(* lib.rs (lib.rs:14-32) has Recip between Neg and Pow; the Expr of mod.rs *)
(* (mod.rs:13-41) has no Recip and has Ln .. Arctan after Pow.             *)
(***************************************************************************)
Rank(t) ==
    CASE t = "Const" -> 0
      [] t = "X" -> 1
      [] t = "Sum" -> 2
      [] t = "Prod" -> 3
      [] t = "Neg" -> 4
      [] t = "Recip" -> 5
      [] t = "Pow" -> 6
      [] t = "Ln" -> 7
      [] t = "Sin" -> 8
      [] t = "Cos" -> 9
      [] t = "Arcsin" -> 10
      [] t = "Arccos" -> 11
      [] t = "Arctan" -> 12

RECURSIVE Cmp(_, _), CmpSeq(_, _)
\* Ord::cmp on Expr: -1, 0 or 1.
Cmp(a, b) ==
    IF Tag(a) # Tag(b)
    THEN (IF Rank(Tag(a)) < Rank(Tag(b)) THEN -1 ELSE 1)
    ELSE CASE IsConst(a) -> (IF a[2] < b[2] THEN -1 ELSE IF a[2] > b[2] THEN 1 ELSE 0)
           [] Tag(a) = "X" -> 0
           [] IsSum(a) \/ IsProd(a) -> CmpSeq(a[2], b[2])
           [] IsPow(a) -> LET c == Cmp(a[2], b[2]) IN IF c # 0 THEN c ELSE Cmp(a[3], b[3])
           [] OTHER -> Cmp(a[2], b[2])

\* Ord::cmp on Vec<Expr>: lexicographic, a proper prefix is smaller.
CmpSeq(u, v) ==
    IF u = <<>> THEN (IF v = <<>> THEN 0 ELSE -1)
    ELSE IF v = <<>> THEN 1
    ELSE LET c == Cmp(Head(u), Head(v))
         IN IF c # 0 THEN c ELSE CmpSeq(Tail(u), Tail(v))

Leq(a, b) == Cmp(a, b) <= 0

RECURSIVE Insert(_, _)
\* x inserted into the sorted sequence v, after the elements equal to it.
Insert(x, v) ==
    IF v = <<>> THEN <<x>>
    ELSE IF Leq(Head(v), x) THEN <<Head(v)>> \o Insert(x, Tail(v))
    ELSE <<x>> \o v

RECURSIVE Sort(_)
\* Vec::sort(): the order is total, so the stable sort's result is the sorted sequence.
Sort(v) == IF v = <<>> THEN <<>> ELSE Insert(v[Len(v)], Sort(SubSeq(v, 1, Len(v) - 1)))

(***************************************************************************)
(* Like terms (lib.rs:35-116).                                             *)
(***************************************************************************)
\* self.like_terms_with(term)
like_terms_with(self, term) ==
    IF self = term THEN TRUE
    ELSE CASE IsProd(self) ->
                IF IsProd(term)
                THEN Sort(RetainNonConst(self[2])) = Sort(RetainNonConst(term[2]))
                ELSE Contains(self[2], term)
           [] IsSum(self) ->
                IF IsSum(term) THEN Sort(self[2]) = Sort(term[2])
                ELSE IF IsProd(term) THEN Contains(term[2], self)
                ELSE FALSE
           [] IsConst(self) -> IsConst(term)
           [] OTHER ->
                IF IsProd(term) THEN Contains(term[2], self) ELSE self = term

\* self.add_like_term(term): the value of self afterwards.
add_like_term(self, term) ==
    CASE IsConst(self) ->
            IF IsConst(term) THEN Const(self[2] + term[2]) ELSE self
      [] IsProd(self) ->
            LET a == self[2]
                c1 == FirstConst(a)
            IN IF IsProd(term)
               THEN LET c2 == FirstConst(term[2])
                    IN IF c1 # 0 /\ c2 # 0
                       THEN Prod(SetAt(a, c1, Const(a[c1][2] + term[2][c2][2])))
                       ELSE self
               ELSE IF Contains(a, term) /\ c1 # 0
                    THEN Prod(SetAt(a, c1, Const(a[c1][2] + 1)))
                    ELSE self
      [] OTHER ->
            IF self = term THEN Prod(<<Const(2), self>>) ELSE self

\* self.recip() (lib.rs:118-123)
recip(self) == IF IsRecip(self) THEN self[2] ELSE Recip(self)

(***************************************************************************)
(* The operators (lib.rs:126-201).                                         *)
(***************************************************************************)
\* impl Add: self + rhs
add(self, rhs) == IF IsSum(self) THEN Sum(Append(self[2], rhs)) ELSE Sum(<<self, rhs>>)

\* impl Mul: self * rhs
mul(self, rhs) == IF IsProd(self) THEN Prod(Append(self[2], rhs)) ELSE Prod(<<self, rhs>>)

\* impl Neg: -self
neg(self) == IF IsNeg(self) THEN self[2] ELSE Neg(self)

\* impl Sub: self - rhs
sub(self, rhs) == add(self, neg(rhs))

\* impl Div: self / rhs
div(self, rhs) == mul(self, Recip(rhs))

(***************************************************************************)
(* The simplifier (lib.rs:263-511).                                        *)
(***************************************************************************)
\* simplify_singleton (lib.rs:331-350)
simplify_singleton(self) ==
    IF IsSum(self) \/ IsProd(self)
    THEN IF self[2] = <<>> THEN Const(0)
         ELSE IF Len(self[2]) = 1 THEN self[2][1]
         ELSE self
    ELSE self

RECURSIVE SumsInSumsSkipping(_, _)
\* The loop of simplify_sums_in_sums, stepping over the element that takes the
\* place of a spliced Sum.
SumsInSumsSkipping(v, i) ==
    IF i > Len(v) THEN v
    ELSE IF IsSum(v[i]) THEN SumsInSumsSkipping(RemoveAt(v \o v[i][2], i), i + 1)
    ELSE SumsInSumsSkipping(v, i + 1)

RECURSIVE SumsInSumsLoop(_, _)
\* The while loop of simplify_sums_in_sums, from index i on.
SumsInSumsLoop(v, i) ==
    IF i > Len(v) THEN v
    ELSE IF IsSum(v[i]) THEN SumsInSumsLoop(RemoveAt(v \o v[i][2], i), i)
    ELSE SumsInSumsLoop(v, i + 1)

\* simplify_sums_in_sums (lib.rs:355-372)
simplify_sums_in_sums(self) ==
    IF IsSum(self) THEN Sum(SumsInSumsLoop(self[2], 1)) ELSE self

\* The inner while of simplify_apply_sums: the first j < i with v[i] like v[j], 0 if none.
FirstLike(v, i) ==
    IF \E j \in 1..(i - 1) : like_terms_with(v[i], v[j])
    THEN CHOOSE j \in 1..(i - 1) :
            /\ like_terms_with(v[i], v[j])
            /\ \A k \in 1..(j - 1) : ~like_terms_with(v[i], v[k])
    ELSE 0

RECURSIVE ApplySumsLoop(_, _)
\* The outer while of simplify_apply_sums, from index i on.
ApplySumsLoop(v, i) ==
    IF i > Len(v) THEN v
    ELSE LET j == FirstLike(v, i)
         IN IF j # 0
            THEN ApplySumsLoop(RemoveAt(SetAt(v, j, add_like_term(v[j], v[i])), i), i)
            ELSE ApplySumsLoop(v, i + 1)

\* simplify_apply_sums (lib.rs:377-395)
simplify_apply_sums(self) ==
    IF IsSum(self) THEN Sum(ApplySumsLoop(self[2], 2)) ELSE self

RECURSIVE MultConstsLoop(_, _)
\* The outer while of simplify_mult_consts, from index i on.
MultConstsLoop(v, i) ==
    IF i > Len(v) THEN v
    ELSE IF IsConst(v[i])
         THEN LET j == FirstConst(SubSeq(v, 1, i - 1))
              IN IF j # 0
                 THEN MultConstsLoop(RemoveAt(SetAt(v, j, Const(v[j][2] * v[i][2])), i), i)
                 ELSE MultConstsLoop(v, i + 1)
         ELSE MultConstsLoop(v, i + 1)

\* simplify_mult_consts (lib.rs:399-421)
simplify_mult_consts(self) ==
    IF IsProd(self) THEN Prod(MultConstsLoop(self[2], 2)) ELSE self

\* Whether the inner while of simplify_mult_pows merges v[i] into v[j].
PowsMatch(v, i, j) ==
    IF IsPow(v[i])
    THEN IF IsPow(v[j]) THEN v[j][2] = v[i][2] ELSE v[i][2] = v[i]
    ELSE IF IsPow(v[j]) THEN v[j][2] = v[i] ELSE v[i] = v[j]

\* The value the inner while of simplify_mult_pows stores in v[j] on a match.
PowsMerge(v, i, j) ==
    IF IsPow(v[i])
    THEN IF IsPow(v[j])
         THEN Pow(v[j][2], add(v[i][3], v[j][3]))
         ELSE Pow(v[i][2], add(v[i][3], Const(1)))
    ELSE IF IsPow(v[j])
         THEN Pow(v[j][2], add(v[j][3], Const(1)))
         ELSE Pow(v[j], Const(2))

\* The first j < i the inner while of simplify_mult_pows matches, 0 if none.
FirstPowsMatch(v, i) ==
    IF \E j \in 1..(i - 1) : PowsMatch(v, i, j)
    THEN CHOOSE j \in 1..(i - 1) :
            PowsMatch(v, i, j) /\ \A k \in 1..(j - 1) : ~PowsMatch(v, i, k)
    ELSE 0

RECURSIVE MultPowsLoop(_, _)
\* The outer while of simplify_mult_pows, from index i on.
MultPowsLoop(v, i) ==
    IF i > Len(v) THEN v
    ELSE LET j == FirstPowsMatch(v, i)
         IN IF j # 0
            THEN MultPowsLoop(RemoveAt(SetAt(v, j, PowsMerge(v, i, j)), i), i)
            ELSE MultPowsLoop(v, i + 1)

\* simplify_mult_pows (lib.rs:426-487)
simplify_mult_pows(self) ==
    IF IsProd(self) THEN Prod(MultPowsLoop(self[2], 2)) ELSE self

\* The inner while of simplify_cancel_fracs: the first j > i with v[i] == v[j].recip(), 0 if none.
FirstRecip(v, i) ==
    IF \E j \in (i + 1)..Len(v) : v[i] = recip(v[j])
    THEN CHOOSE j \in (i + 1)..Len(v) :
            v[i] = recip(v[j]) /\ \A k \in (i + 1)..(j - 1) : v[i] # recip(v[k])
    ELSE 0

RECURSIVE CancelFracsLoop(_, _)
\* The outer while of simplify_cancel_fracs, from index i on.
CancelFracsLoop(v, i) ==
    IF i > Len(v) THEN v
    ELSE LET j == FirstRecip(v, i)
         IN IF j # 0
            THEN CancelFracsLoop(Append(RemoveAt(RemoveAt(v, j), i), Const(1)), i)
            ELSE CancelFracsLoop(v, i + 1)

\* simplify_cancel_fracs (lib.rs:491-511)
simplify_cancel_fracs(self) ==
    IF IsProd(self) THEN Prod(CancelFracsLoop(self[2], 1)) ELSE self

\* The final match of simplify (lib.rs:297-305): sort the children of a Sum or Prod.
SortChildren(self) ==
    IF IsSum(self) THEN Sum(Sort(self[2]))
    ELSE IF IsProd(self) THEN Prod(Sort(self[2]))
    ELSE self

RECURSIVE simplify(_), simplify_terms(_), SimplifyEach(_)
\* for e in v.iter_mut() { e.simplify(); } (lib.rs:313-315, 318-320)
SimplifyEach(v) ==
    IF v = <<>> THEN <<>> ELSE <<simplify(Head(v))>> \o SimplifyEach(Tail(v))

\* simplify_terms (lib.rs:310-328)
simplify_terms(self) ==
    CASE IsSum(self) -> Sum(SimplifyEach(self[2]))
      [] IsProd(self) -> Prod(SimplifyEach(self[2]))
      [] IsPow(self) -> Pow(simplify(self[2]), simplify(self[3]))
      [] OTHER -> self

\* simplify (lib.rs:263-306)
simplify(self) ==
    SortChildren(
        CASE IsSum(self) ->
                simplify_singleton(simplify_apply_sums(simplify_sums_in_sums(
                    simplify_terms(self))))
          [] IsProd(self) ->
                simplify_singleton(simplify_terms(simplify_mult_pows(simplify_mult_consts(
                    simplify_cancel_fracs(simplify_terms(self))))))
          [] IsPow(self) -> simplify_terms(self)
          [] OTHER -> self)

(***************************************************************************)
(* The caller: it starts from a literal or the variable, combines the      *)
(* expression under construction e with the operators (as in               *)
(* tests::simplification, lib.rs:567-617), simplifies it in place and asks *)
(* whether two expressions are like terms (tests::like_terms).             *)
(*   op    the last call                                                   *)
(*   inp   its self operand (for simplify: e before the call)              *)
(*   arg   its other operand, None if it has none                          *)
(*   out   the result of the last like_terms_with                          *)
(*   n     the number of operators applied so far                          *)
(*   version  the sources the caller is compiled with: "lib.rs" is the      *)
(*         single file src/src/lib.rs, "mod.rs" is src/src/lib/mod.rs with   *)
(*         its operations.rs, "modules" is the module tree with            *)
(*         simplify.rs, derivative.rs and latex.rs.  It never changes.     *)
(***************************************************************************)
None == <<"None">>

\* The expressions a caller starts from: Expr::X and Expr::Const(c).
Leaves == {X} \cup {Const(c) : c \in ConstVals}

\* The operand pairs of a binary call on e: e op leaf, e op e.clone(), leaf op e.
Pairs == ({e} \X (Leaves \cup {e})) \cup (Leaves \X {e})

\* let mut e = Expr::X (lib.rs:574), let mut e = Expr::Sum(vec![Expr::X]) (lib.rs:568)
Init ==
    /\ e \in Leaves \cup {Sum(<<X>>)}
    /\ inp = None
    /\ arg = None
    /\ op = "new"
    /\ out = FALSE
    /\ n = 0
    /\ version = "lib.rs"

\* The state after a call that replaces e.
Built(name, self, rhs, result) ==
    /\ e' = result
    /\ inp' = self
    /\ arg' = rhs
    /\ op' = name
    /\ out' = FALSE
    /\ n' = n + 1
    /\ UNCHANGED version

\* e = a + b (lib.rs:126-141, 198)
AddOp == n < MaxOps /\ \E p \in Pairs : Built("add", p[1], p[2], add(p[1], p[2]))

\* e = a * b (lib.rs:143-158, 199)
MulOp == n < MaxOps /\ \E p \in Pairs : Built("mul", p[1], p[2], mul(p[1], p[2]))

\* e = a - b (lib.rs:171-177, 200)
SubOp == n < MaxOps /\ \E p \in Pairs : Built("sub", p[1], p[2], sub(p[1], p[2]))

\* e = a / b (lib.rs:179-186, 201)
DivOp == n < MaxOps /\ \E p \in Pairs : Built("div", p[1], p[2], div(p[1], p[2]))

\* e = -e (lib.rs:160-169)
NegOp == n < MaxOps /\ Built("neg", e, None, neg(e))

\* e.simplify() (lib.rs:263-306)
Simplify ==
    /\ e' = simplify(e)
    /\ inp' = e
    /\ arg' = None
    /\ op' = "simplify"
    /\ out' = FALSE
    /\ UNCHANGED <<n, version>>

\* The functions whose loops SpecLoop runs one iteration at a time.
LoopNames ==
    {"simplify_sums_in_sums", "simplify_apply_sums", "simplify_mult_consts",
     "simplify_mult_pows", "simplify_cancel_fracs"}

\* One of them was called and has not returned: arg is <<pc, i, j>>, see SpecLoop.
Running == op \in LoopNames /\ arg[1] # "done"

\* e.simplify_singleton() (lib.rs:331-351), a direct call as in lib.rs:570, 582.
\* It is made when the call before it has returned.
SimplifySingleton ==
    /\ ~Running
    /\ e' = simplify_singleton(e)
    /\ inp' = e
    /\ arg' = None
    /\ op' = "simplify_singleton"
    /\ out' = FALSE
    /\ UNCHANGED <<n, version>>

\* e.simplify_terms() (lib.rs:310-328), a direct call
SimplifyTerms ==
    /\ e' = simplify_terms(e)
    /\ inp' = e
    /\ arg' = None
    /\ op' = "simplify_terms"
    /\ out' = FALSE
    /\ UNCHANGED <<n, version>>

\* a.like_terms_with(&b) (lib.rs:35-76)
LikeTermsWith ==
    /\ n <= MaxQueryOps
    /\ \E p \in Pairs :
        /\ inp' = p[1]
        /\ arg' = p[2]
        /\ out' = like_terms_with(p[1], p[2])
    /\ op' = "like_terms_with"
    /\ UNCHANGED <<e, n, version>>

Next ==
    \/ AddOp \/ MulOp \/ SubOp \/ DivOp \/ NegOp
    \/ Simplify \/ SimplifySingleton \/ SimplifyTerms
    \/ LikeTermsWith

Spec == Init /\ [][Next]_vars

(***************************************************************************)
(* Notions the properties are stated with.                                 *)
(***************************************************************************)
\* The values the variable is evaluated at.
EvalPoints == {0, 1, 2}

RECURSIVE Power(_, _)
\* b to the k-th power, k >= 0.
Power(b, k) == IF k = 0 THEN 1 ELSE b * Power(b, k - 1)

RECURSIVE Arith(_)
\* x is built from Const, X, Neg and non-empty Sum and Prod only.
Arith(x) ==
    CASE IsConst(x) -> TRUE
      [] Tag(x) = "X" -> TRUE
      [] IsNeg(x) -> Arith(x[2])
      [] IsSum(x) \/ IsProd(x) -> x[2] # <<>> /\ \A i \in 1..Len(x[2]) : Arith(x[2][i])
      [] OTHER -> FALSE

RECURSIVE Eval(_, _), EvalSum(_, _), EvalProd(_, _)
\* The integer value of x at X = val; exponents are evaluated too.
Eval(x, val) ==
    CASE IsConst(x) -> x[2]
      [] Tag(x) = "X" -> val
      [] IsNeg(x) -> 0 - Eval(x[2], val)
      [] IsSum(x) -> EvalSum(x[2], val)
      [] IsProd(x) -> EvalProd(x[2], val)
      [] IsPow(x) -> Power(Eval(x[2], val), Eval(x[3], val))

EvalSum(v, val) == IF v = <<>> THEN 0 ELSE Eval(Head(v), val) + EvalSum(Tail(v), val)

EvalProd(v, val) == IF v = <<>> THEN 1 ELSE Eval(Head(v), val) * EvalProd(Tail(v), val)

RECURSIVE Evaluable(_, _)
\* Eval is defined on x at X = val: x has no reciprocal and every exponent is >= 0.
Evaluable(x, val) ==
    CASE IsConst(x) -> TRUE
      [] Tag(x) = "X" -> TRUE
      [] IsNeg(x) -> Evaluable(x[2], val)
      [] IsSum(x) \/ IsProd(x) -> \A i \in 1..Len(x[2]) : Evaluable(x[2][i], val)
      [] IsPow(x) -> /\ Evaluable(x[2], val)
                     /\ Evaluable(x[3], val)
                     /\ Eval(x[3], val) >= 0
      [] OTHER -> FALSE

\* v is in non-decreasing canonical order.
IsSorted(v) == \A i \in 1..(Len(v) - 1) : Leq(v[i], v[i + 1])

RECURSIVE AllSorted(_)
\* The children of every Sum and Prod node of x, at any depth, are in canonical order.
AllSorted(x) ==
    CASE IsConst(x) -> TRUE
      [] Tag(x) = "X" -> TRUE
      [] IsSum(x) \/ IsProd(x) ->
            IsSorted(x[2]) /\ \A i \in 1..Len(x[2]) : AllSorted(x[2][i])
      [] IsPow(x) -> AllSorted(x[2]) /\ AllSorted(x[3])
      [] OTHER -> AllSorted(x[2])

RECURSIVE ConstProduct(_)
\* The product of the Const elements of v (1 if there is none).
ConstProduct(v) ==
    IF v = <<>> THEN 1
    ELSE (IF IsConst(Head(v)) THEN Head(v)[2] ELSE 1) * ConstProduct(Tail(v))

\* The numeric coefficient of a term: a bare term counts as coefficient 1.
Coef(t) == IF IsConst(t) THEN t[2] ELSE IF IsProd(t) THEN ConstProduct(t[2]) ELSE 1

\* The non-constant factors of a term, in canonical order; a non-Prod term is a
\* one-factor product.
Factors(t) ==
    IF IsProd(t) THEN Sort(RetainNonConst(t[2]))
    ELSE IF IsConst(t) THEN <<>>
    ELSE <<t>>

\* a and b have the same non-constant factors.
SameFactors(a, b) == Factors(a) = Factors(b)

\* The base of a factor of a product: a bare factor is its own base.
Base(t) == IF IsPow(t) THEN t[2] ELSE t

\* The number of Const elements of v.
NumConsts(v) == Cardinality({i \in 1..Len(v) : IsConst(v[i])})

\* x is t / t for some t.
IsSelfQuotient(x) ==
    /\ IsProd(x)
    /\ Len(x[2]) >= 2
    /\ IsRecip(x[2][Len(x[2])])
    /\ x = div(x[2][Len(x[2])][2], x[2][Len(x[2])][2])

(***************************************************************************)
(* Properties of simplify (lib.rs).                                        *)
(***************************************************************************)
\* C1: simplify is idempotent: simplifying the result of simplify returns an equal tree.
C1_SimplifyIdempotent == op = "simplify" => simplify(e) = e

\* C2: simplify preserves meaning: for e built from Const, X, Neg and non-empty Sum
\* and Prod, simplify(e) evaluates to the same integer as e at every value of X.
C2_SimplifyPreservesValue ==
    (op = "simplify" /\ Arith(inp)) =>
        \A val \in EvalPoints : Evaluable(e, val) => Eval(e, val) = Eval(inp, val)

\* C3: after simplify, the children of every Sum and Prod node anywhere in the result
\* (also below Neg, Pow and Recip) are in non-decreasing canonical order.
C3_SimplifiedIsSorted == op = "simplify" => AllSorted(e)

\* C4: merging two like terms of a Sum adds their coefficients: simplifying a Sum of two
\* terms over the same factors gives one term over those factors whose coefficient is
\* the sum of the two, whichever term comes first.
C4_LikeTermsAddCoefficients ==
    (op = "simplify" /\ IsSum(inp) /\ Len(inp[2]) = 2) =>
        LET t1 == simplify(inp[2][1])
            t2 == simplify(inp[2][2])
        IN (~IsSum(t1) /\ ~IsSum(t2) /\ SameFactors(t1, t2)) =>
                /\ Factors(e) = Factors(t1)
                /\ Coef(e) = Coef(t1) + Coef(t2)

\* C5: like_terms_with(a, b) is true exactly when a and b have the same non-constant
\* factors, and it is symmetric.
C5_LikeTermsSameFactors ==
    op = "like_terms_with" =>
        /\ out = SameFactors(inp, arg)
        /\ like_terms_with(arg, inp) = out

\* C6: e = X; e = e + X * Const(5); e = e / X; simplify yields Const(6).
C6_EndToEndIsSix ==
    (op = "simplify" /\ inp = div(add(X, mul(X, Const(5))), X)) => e = Const(6)

\* C7: power consolidation: after simplify of a Prod no two factors share the same
\* base, bare or Pow, in whichever order they appear; simplify(X * X) is Pow(X, 2) and
\* simplify(Pow(X, 2) * X) is Pow(X, 3).
C7_PowersConsolidated ==
    (op = "simplify" /\ IsProd(inp)) =>
        /\ IsProd(e) =>
                \A i, j \in 1..Len(e[2]) : i < j => Base(e[2][i]) # Base(e[2][j])
        /\ inp = mul(X, X) => e = Pow(X, Const(2))
        /\ inp = mul(Pow(X, Const(2)), X) => e = Pow(X, Const(3))

\* C8: fraction cancellation: for every expression t, simplify(t / t) is Const(1).
C8_SelfQuotientIsOne == (op = "simplify" /\ IsSelfQuotient(inp)) => e = Const(1)

\* C9: simplify(X * X / X) is the tree X, not a product carrying a Const(1) factor.
C9_CancelLeavesFactor == (op = "simplify" /\ inp = div(mul(X, X), X)) => e = X

\* C10: constant folding: after simplify of a Prod the result has at most one Const
\* factor, whose value is the product of the Const factors of the input (stated for
\* products of literals and the variable), and a Const(0) factor makes the whole Prod
\* Const(0).
C10_ConstantFolding ==
    (op = "simplify" /\ IsProd(inp)) =>
        /\ IsProd(e) => NumConsts(e[2]) <= 1
        /\ (\A i \in 1..Len(inp[2]) : IsConst(inp[2][i]) \/ inp[2][i] = X) =>
                Coef(e) = ConstProduct(inp[2])
        /\ Contains(inp[2], Const(0)) => e = Const(0)

(***************************************************************************)
(* The module tree src/src/lib/: mod.rs, operations.rs, simplify.rs and    *)
(* derivative.rs.  Its Expr (mod.rs:13-41) has no Recip and has the        *)
(* variants Ln, Sin, Cos, Arcsin, Arccos, Arctan, each <<tag, e>>.  The    *)
(* definitions that model it carry the prefix mod_.                       *)
(***************************************************************************)
Ln(x) == <<"Ln", x>>
Sin(x) == <<"Sin", x>>
Cos(x) == <<"Cos", x>>
Arcsin(x) == <<"Arcsin", x>>
Arccos(x) == <<"Arccos", x>>
Arctan(x) == <<"Arctan", x>>

\* The outcome of a call that panics (todo!(), arithmetic overflow in a
\* build with overflow checks): the call does not return.
Panic == <<"Panic">>
IsPanic(x) == Tag(x) = "Panic"

\* impl Add: self + rhs (operations.rs:4-19)
mod_add(self, rhs) == IF IsSum(self) THEN Sum(Append(self[2], rhs)) ELSE Sum(<<self, rhs>>)

\* self * rhs that leaves out a factor Const(1) on the left.
mul_dropping_one(self, rhs) ==
    IF IsProd(self) THEN Prod(Append(self[2], rhs))
    ELSE IF self = Const(1) THEN Prod(<<rhs>>)
    ELSE Prod(<<self, rhs>>)

\* impl Mul: self * rhs (operations.rs:21-36)
mod_mul(self, rhs) == IF IsProd(self) THEN Prod(Append(self[2], rhs)) ELSE Prod(<<self, rhs>>)

\* impl Neg: -self (operations.rs:38-47)
mod_neg(self) == IF IsNeg(self) THEN self[2] ELSE Neg(self)

\* impl Sub: self - rhs (operations.rs:49-55)
mod_sub(self, rhs) == mod_add(self, mod_neg(rhs))

\* self.recip() (mod.rs:45-50)
mod_recip(self) ==
    IF IsPow(self) THEN Pow(self[2], mod_neg(self[3])) ELSE Pow(self, Const(-1))

\* impl Div: self / rhs (operations.rs:57-64)
mod_div(self, rhs) == mod_mul(self, mod_recip(rhs))

\* self.ln() (mod.rs:53-55)
mod_ln(self) == Ln(self)

\* self.pow(rhs), called by derivative.rs:36,46,49,51; its body is not part
\* of the sources.  It builds the node that mod.rs:277 builds in the same
\* place with Expr::Pow(a, Box::new(dec)).
mod_pow(self, rhs) == Pow(self, rhs)

(***************************************************************************)
(* The simplifier of simplify.rs.  Every function returns the new value of *)
(* self, or Panic.                                                         *)
(***************************************************************************)
\* simplify_singleton (simplify.rs:93-112)
mod_simplify_singleton(self) ==
    IF IsSum(self) \/ IsProd(self)
    THEN IF self[2] = <<>> THEN Const(0)
         ELSE IF Len(self[2]) = 1 THEN self[2][1]
         ELSE self
    ELSE self

\* simplify_zero_pow (simplify.rs:116-122)
mod_simplify_zero_pow(self) ==
    IF IsPow(self) /\ self[3] = Const(0) THEN Const(1) ELSE self

\* simplify_one_pow (simplify.rs:126-132)
mod_simplify_one_pow(self) ==
    IF IsPow(self) /\ self[3] = Const(1) THEN self[2] ELSE self

\* simplify_negative_consts (simplify.rs:135-141), on constants whose
\* negation is in the range of Num.
mod_simplify_negative_consts(self) ==
    IF IsNeg(self) /\ IsConst(self[2]) THEN Const(-self[2][2]) ELSE self

RECURSIVE mod_simplify_double_negative(_)
\* simplify_double_negative (simplify.rs:144-154): the inner operand is
\* taken out with mem::replace and overwrites self, then the rule is
\* applied again.
mod_simplify_double_negative(self) ==
    IF IsNeg(self) /\ IsNeg(self[2])
    THEN mod_simplify_double_negative(self[2][2])
    ELSE self

\* simplify_times_zero (simplify.rs:174-180)
mod_simplify_times_zero(self) ==
    IF IsProd(self) /\ Contains(self[2], Const(0)) THEN Const(0) ELSE self

\* simplify_plus_zero (simplify.rs:183-187): todo!() on every Sum.
mod_simplify_plus_zero(self) == IF IsSum(self) THEN Panic ELSE self

\* simplify_add_consts (simplify.rs:190-194): todo!() on every Sum.
mod_simplify_add_consts(self) == IF IsSum(self) THEN Panic ELSE self

\* simplify_multiply_consts (simplify.rs:197-201): todo!() on every Prod.
mod_simplify_multiply_consts(self) == IF IsProd(self) THEN Panic ELSE self

RECURSIVE ModNegEach(_)
\* v.iter_mut().map(|x| -mem::replace(x, Expr::X)).collect() (simplify.rs:161-164)
ModNegEach(v) ==
    IF v = <<>> THEN <<>> ELSE <<mod_neg(Head(v))>> \o ModNegEach(Tail(v))

RECURSIVE mod_simplify(_), mod_simplify_terms(_), ModSimplifyEach(_)
RECURSIVE mod_simplify_distribute_negative_in_sum(_)

\* for e in v.iter_mut() { e.simplify() }: <<"Vec", w>> with the simplified
\* elements, or Panic when the simplification of an element panics.
ModSimplifyEach(v) ==
    IF v = <<>> THEN <<"Vec", <<>>>>
    ELSE LET h == mod_simplify(Head(v)) IN
         IF IsPanic(h) THEN Panic
         ELSE LET t == ModSimplifyEach(Tail(v)) IN
              IF IsPanic(t) THEN Panic ELSE <<"Vec", <<h>> \o t[2]>>

\* simplify_terms (simplify.rs:50-90)
mod_simplify_terms(self) ==
    CASE Tag(self) \in {"Const", "X"} -> self
      [] Tag(self) \in {"Sum", "Prod"} ->
            LET w == ModSimplifyEach(self[2]) IN
            IF IsPanic(w) THEN Panic ELSE <<Tag(self), w[2]>>
      [] Tag(self) = "Pow" ->
            LET a == mod_simplify(self[2]) IN
            IF IsPanic(a) THEN Panic
            ELSE LET b == mod_simplify(self[3]) IN
                 IF IsPanic(b) THEN Panic ELSE Pow(a, b)
      [] OTHER ->
            LET x == mod_simplify(self[2]) IN
            IF IsPanic(x) THEN Panic ELSE <<Tag(self), x>>

\* simplify_distribute_negative_in_sum (simplify.rs:157-171)
mod_simplify_distribute_negative_in_sum(self) ==
    IF IsNeg(self) /\ IsSum(self[2])
    THEN mod_simplify_terms(Sum(ModNegEach(self[2][2])))
    ELSE self

\* simplify (simplify.rs:16-46)
mod_simplify(self) ==
    LET t == mod_simplify_terms(self) IN
    IF IsPanic(t) THEN Panic
    ELSE CASE IsSum(t) -> mod_simplify_plus_zero(mod_simplify_singleton(t))
           [] IsProd(t) -> mod_simplify_times_zero(mod_simplify_singleton(t))
           [] IsNeg(t) ->
                mod_simplify_distribute_negative_in_sum(
                    mod_simplify_double_negative(mod_simplify_negative_consts(t)))
           [] IsPow(t) -> mod_simplify_one_pow(mod_simplify_zero_pow(t))
           [] OTHER -> t

(***************************************************************************)
(* The simplifier that mod.rs itself defines (mod.rs:127-247).  Its        *)
(* simplify_singleton, simplify_zero_pow, simplify_one_pow and             *)
(* simplify_negative_consts (mod.rs:198-246) have the bodies of the        *)
(* functions of simplify.rs with these names; simplify and simplify_terms  *)
(* differ.  No function of it panics.                                      *)
(***************************************************************************)
RECURSIVE modrs_simplify(_), modrs_simplify_terms(_), ModRsSimplifyEach(_)

\* for e in v.iter_mut() { e.simplify(); } (mod.rs:177-179, 182-184)
ModRsSimplifyEach(v) ==
    IF v = <<>> THEN <<>>
    ELSE <<modrs_simplify(Head(v))>> \o ModRsSimplifyEach(Tail(v))

\* simplify_terms (mod.rs:174-195)
modrs_simplify_terms(self) ==
    CASE IsSum(self) -> Sum(ModRsSimplifyEach(self[2]))
      [] IsProd(self) -> Prod(ModRsSimplifyEach(self[2]))
      [] IsPow(self) -> Pow(modrs_simplify(self[2]), modrs_simplify(self[3]))
      [] IsNeg(self) -> Neg(modrs_simplify(self[2]))
      [] OTHER -> self

\* simplify (mod.rs:136-170): the arm of the variant, then the sort of the
\* children of a Sum or Prod.
modrs_simplify(self) ==
    SortChildren(
        CASE IsSum(self) \/ IsProd(self) ->
                mod_simplify_singleton(modrs_simplify_terms(self))
          [] IsPow(self) ->
                mod_simplify_one_pow(mod_simplify_zero_pow(modrs_simplify_terms(self)))
          [] IsNeg(self) -> mod_simplify_negative_consts(self)
          [] OTHER -> self)

(***************************************************************************)
(* derivative (derivative.rs:5-53).  The arms are tried in the order of    *)
(* the match.                                                              *)
(***************************************************************************)
\* let a = v.pop().unwrap(); let b = Expr::Prod(v) (derivative.rs:26-27):
\* <<a, b>>, a the last factor and b the product of the factors before it.
ModSplit(v) == <<v[Len(v)], Prod(SubSeq(v, 1, Len(v) - 1))>>

\* a.clone() * b.clone().derivative() + b * a.derivative() (derivative.rs:30),
\* da and db the derivatives of a and b.
ModProductRule(a, b, da, db) == mod_add(mod_mul(a, db), mod_mul(b, da))

\* let dec = *b.clone() - Expr::Const(1); *b * a.clone().pow(dec) * a.derivative()
\* (derivative.rs:34-36), da the derivative of a.
ModPowerRule(a, b, da) ==
    mod_mul(mod_mul(b, mod_pow(a, mod_sub(b, Const(1)))), da)

RECURSIVE mod_derivative(_), ModDerivativeEach(_)

\* v.into_iter().map(|x| x.derivative()).collect() (derivative.rs:19)
ModDerivativeEach(v) ==
    IF v = <<>> THEN <<>>
    ELSE <<mod_derivative(Head(v))>> \o ModDerivativeEach(Tail(v))

mod_derivative(self) ==
    CASE IsConst(self) -> Const(0)
      [] IsProd(self) /\ self[2] = <<>> -> Const(0)
      [] IsPow(self) /\ self[3] = Const(0) -> Const(0)
      [] IsProd(self) /\ Len(self[2]) = 1 -> mod_derivative(self[2][1])
      [] IsPow(self) /\ self[3] = Const(1) -> mod_derivative(self[2])
      [] Tag(self) = "X" -> Const(1)
      [] IsSum(self) -> Sum(ModDerivativeEach(self[2]))
      [] IsNeg(self) -> mod_neg(mod_derivative(self[2]))
      [] IsProd(self) /\ Len(self[2]) >= 2 ->
            LET ab == ModSplit(self[2]) IN
            ModProductRule(ab[1], ab[2], mod_derivative(ab[1]), mod_derivative(ab[2]))
      [] IsPow(self) /\ IsConst(self[3]) /\ self[3] \notin {Const(0), Const(1)} ->
            ModPowerRule(self[2], self[3], mod_derivative(self[2]))
      [] IsPow(self) /\ ~IsConst(self[3]) ->
            mod_mul(mod_derivative(mod_mul(mod_ln(self[2]), self[3])), self)
      [] Tag(self) = "Ln" ->
            mod_mul(mod_div(Const(1), self[2]), mod_derivative(self[2]))
      [] Tag(self) = "Sin" -> mod_mul(Cos(self[2]), mod_derivative(self[2]))
      [] Tag(self) = "Cos" -> mod_mul(mod_neg(Sin(self[2])), mod_derivative(self[2]))
      [] Tag(self) = "Arcsin" ->
            mod_mul(mod_pow(mod_sub(Const(1), mod_pow(self[2], Const(2))),
                            mod_div(Const(1), Const(2))),
                    mod_derivative(self[2]))
      [] Tag(self) = "Arccos" ->
            mod_mul(mod_neg(mod_pow(mod_sub(Const(1), mod_pow(self[2], Const(2))),
                                    mod_div(Const(1), Const(2)))),
                    mod_derivative(self[2]))
      [] Tag(self) = "Arctan" ->
            mod_mul(mod_div(Const(1), mod_add(Const(1), mod_pow(self[2], Const(2)))),
                    mod_derivative(self[2]))

(***************************************************************************)
(* derivative as mod.rs itself defines it (mod.rs:251-307).  v[0] panics   *)
(* on an empty vector; a panic in an operand is the outcome of the whole   *)
(* expression.                                                             *)
(***************************************************************************)
\* a * b, a + b and Expr::Neg(Box::new(a)) on operands that were computed.
StrictMul(a, b) == IF IsPanic(a) \/ IsPanic(b) THEN Panic ELSE mod_mul(a, b)
StrictAdd(a, b) == IF IsPanic(a) \/ IsPanic(b) THEN Panic ELSE mod_add(a, b)
StrictNeg(a) == IF IsPanic(a) THEN Panic ELSE Neg(a)

\* let dec = *b.clone() - Expr::Const(1);
\* *b.clone() * Expr::Pow(a.clone(), Box::new(dec)) * b.clone().derivative()
\* (mod.rs:274-278), da and db the derivatives of a and b.
ModRsPowerRule(a, b, da, db) ==
    StrictMul(mod_mul(b, Pow(a, mod_sub(b, Const(1)))), db)

RECURSIVE modrs_derivative(_), ModRsDerivativeEach(_)

\* v.iter().map(|x| x.derivative()).collect() (mod.rs:258): <<"Vec", w>>, or Panic.
ModRsDerivativeEach(v) ==
    IF v = <<>> THEN <<"Vec", <<>>>>
    ELSE LET h == modrs_derivative(Head(v)) IN
         IF IsPanic(h) THEN Panic
         ELSE LET t == ModRsDerivativeEach(Tail(v)) IN
              IF IsPanic(t) THEN Panic ELSE <<"Vec", <<h>> \o t[2]>>

modrs_derivative(self) ==
    CASE IsConst(self) -> Const(0)
      [] Tag(self) = "X" -> Const(1)
      [] IsSum(self) ->
            LET w == ModRsDerivativeEach(self[2]) IN
            IF IsPanic(w) THEN Panic ELSE Sum(w[2])
      [] IsNeg(self) -> StrictNeg(modrs_derivative(self[2]))
      [] IsProd(self) ->
            \* let a = &v[0]; let b = Expr::Prod(v[1..].to_vec())
            IF self[2] = <<>> THEN Panic
            ELSE LET a == Head(self[2])
                     b == Prod(Tail(self[2]))
                     db == modrs_derivative(b)
                 IN  IF IsPanic(db) THEN Panic
                     ELSE StrictAdd(mod_mul(a, db), StrictMul(b, modrs_derivative(a)))
      [] IsPow(self) /\ self[3] = Const(0) -> Const(0)
      [] IsPow(self) /\ self[3] = Const(1) -> modrs_derivative(self[2])
      [] IsPow(self) /\ IsConst(self[3]) /\ self[3] \notin {Const(0), Const(1)} ->
            ModRsPowerRule(self[2], self[3],
                           modrs_derivative(self[2]), modrs_derivative(self[3]))
      [] IsPow(self) /\ ~IsConst(self[3]) ->
            StrictMul(self, modrs_derivative(mod_mul(mod_ln(self[2]), self[3])))
      [] Tag(self) = "Ln" ->
            StrictMul(modrs_derivative(self[2]), Pow(self[2], Const(-1)))
      [] Tag(self) = "Sin" -> StrictMul(modrs_derivative(self[2]), Cos(self[2]))
      [] Tag(self) = "Cos" -> StrictMul(modrs_derivative(self[2]), mod_neg(Sin(self[2])))
      [] Tag(self) = "Arcsin" ->
            StrictMul(modrs_derivative(self[2]),
                      Pow(mod_neg(mod_add(mod_mul(self[2], self[2]), Const(1))),
                          mod_div(Const(1), Const(2))))
      [] Tag(self) = "Arccos" ->
            StrictMul(modrs_derivative(self[2]),
                      mod_neg(Pow(mod_neg(mod_add(mod_mul(self[2], self[2]), Const(1))),
                                  mod_div(Const(1), Const(2)))))
      [] Tag(self) = "Arctan" ->
            StrictMul(modrs_derivative(self[2]),
                      Pow(mod_add(mod_mul(self[2], self[2]), Const(1)), Const(-1)))

(***************************************************************************)
(* The state machine of the module tree: a caller builds e with the        *)
(* operators and methods of operations.rs and mod.rs or writes a Sum or    *)
(* Prod node directly (Expr::Sum(vec![Expr::X]), lib.rs:568), simplifies   *)
(* it in place or differentiates it.  After a call that panicked no        *)
(* further call is made.                                                   *)
(***************************************************************************)
ModLeaves == {X} \cup {Const(c) : c \in ModConstVals}

ModPairs == ({e} \X (ModLeaves \cup {e})) \cup (ModLeaves \X {e})

ModInit ==
    /\ e \in ModLeaves
    /\ inp = None
    /\ arg = None
    /\ op = "new"
    /\ out = FALSE
    /\ n = 0
    /\ version = "modules"

\* The guard of a call with two operands, and of a call with one.
ModCanBuild == ~IsPanic(e) /\ n < MaxModOps
ModCanWrap == ~IsPanic(e) /\ n < MaxUnaryOps

\* e = a + b, also a += b, a + c and c + a with an integer c (operations.rs:4-19, 66-116)
ModAddOp == ModCanBuild /\ \E p \in ModPairs : Built("add", p[1], p[2], mod_add(p[1], p[2]))

\* e = a * b (operations.rs:21-36, 66-116)
ModMulOp == ModCanBuild /\ \E p \in ModPairs : Built("mul", p[1], p[2], mod_mul(p[1], p[2]))

\* e = a - b (operations.rs:49-55, 66-116)
ModSubOp == ModCanBuild /\ \E p \in ModPairs : Built("sub", p[1], p[2], mod_sub(p[1], p[2]))

\* e = a / b (operations.rs:57-64, 66-116)
ModDivOp == ModCanBuild /\ \E p \in ModPairs : Built("div", p[1], p[2], mod_div(p[1], p[2]))

\* e = -e (operations.rs:38-47)
ModNegOp == ModCanWrap /\ Built("neg", e, None, mod_neg(e))

\* e = e.recip() (mod.rs:45-50)
ModRecipOp == ModCanWrap /\ Built("recip", e, None, mod_recip(e))

\* e = e.ln() (mod.rs:53-55)
ModLnOp == ModCanWrap /\ Built("ln", e, None, mod_ln(e))

\* e = Expr::Pow(Box::new(a), Box::new(b)) (as in mod.rs:277)
ModPowOp == ModCanBuild /\ \E p \in ModPairs : Built("pow", p[1], p[2], Pow(p[1], p[2]))

\* e = Expr::Sum(vec![]), Expr::Sum(vec![e]), Expr::Prod(vec![]), Expr::Prod(vec![e])
ModVecOp ==
    /\ ModCanWrap
    /\ \E x \in {Sum(<<>>), Sum(<<e>>), Prod(<<>>), Prod(<<e>>)} : Built("vec", e, None, x)

\* The state after a call that rewrites e in place.
Rewritten(name, result) ==
    /\ e' = result
    /\ inp' = e
    /\ arg' = None
    /\ op' = name
    /\ out' = FALSE
    /\ UNCHANGED <<n, version>>

\* e.simplify() (simplify.rs:16-46)
ModSimplify ==
    version = "modules" /\ ~IsPanic(e) /\ Rewritten("simplify", mod_simplify(e))

\* e.simplify() as mod.rs defines it (mod.rs:136-170)
ModRsSimplify ==
    version = "mod.rs" /\ ~IsPanic(e) /\ Rewritten("simplify", modrs_simplify(e))

\* e.simplify_terms() as mod.rs defines it (mod.rs:174-195)
ModRsSimplifyTerms ==
    version = "mod.rs" /\ ~IsPanic(e) /\ Rewritten("simplify_terms", modrs_simplify_terms(e))

\* e.simplify_singleton() (simplify.rs:93-112, mod.rs:198-218)
ModSimplifySingleton == ~IsPanic(e) /\ Rewritten("simplify_singleton", mod_simplify_singleton(e))

\* Direct calls of the other public functions of simplify.rs.  mod.rs has
\* simplify_zero_pow, simplify_one_pow and simplify_negative_consts with the
\* same bodies (mod.rs:221-246); the other functions are in the module tree
\* alone.
\* e.simplify_terms() (simplify.rs:50-90)
ModSimplifyTerms ==
    version = "modules" /\ ~IsPanic(e) /\ Rewritten("simplify_terms", mod_simplify_terms(e))

\* e.simplify_zero_pow() (simplify.rs:116-122, mod.rs:221-227)
ModSimplifyZeroPow == ~IsPanic(e) /\ Rewritten("simplify_zero_pow", mod_simplify_zero_pow(e))

\* e.simplify_one_pow() (simplify.rs:126-132, mod.rs:231-237)
ModSimplifyOnePow == ~IsPanic(e) /\ Rewritten("simplify_one_pow", mod_simplify_one_pow(e))

\* e.simplify_negative_consts() (simplify.rs:135-141, mod.rs:240-246)
ModSimplifyNegativeConsts ==
    ~IsPanic(e) /\ Rewritten("simplify_negative_consts", mod_simplify_negative_consts(e))

\* e.simplify_double_negative() (simplify.rs:144-154)
ModSimplifyDoubleNegative ==
    /\ version = "modules"
    /\ ~IsPanic(e)
    /\ Rewritten("simplify_double_negative", mod_simplify_double_negative(e))

\* e.simplify_distribute_negative_in_sum() (simplify.rs:157-171)
ModSimplifyDistributeNegativeInSum ==
    /\ version = "modules"
    /\ ~IsPanic(e)
    /\ Rewritten("simplify_distribute_negative_in_sum",
                 mod_simplify_distribute_negative_in_sum(e))

\* e.simplify_times_zero() (simplify.rs:174-180)
ModSimplifyTimesZero ==
    version = "modules" /\ ~IsPanic(e) /\ Rewritten("simplify_times_zero", mod_simplify_times_zero(e))

\* e.simplify_plus_zero() (simplify.rs:183-187)
ModSimplifyPlusZero ==
    version = "modules" /\ ~IsPanic(e) /\ Rewritten("simplify_plus_zero", mod_simplify_plus_zero(e))

\* e.simplify_add_consts() (simplify.rs:190-194)
ModSimplifyAddConsts ==
    version = "modules" /\ ~IsPanic(e) /\ Rewritten("simplify_add_consts", mod_simplify_add_consts(e))

\* e.simplify_multiply_consts() (simplify.rs:197-201)
ModSimplifyMultiplyConsts ==
    /\ version = "modules"
    /\ ~IsPanic(e)
    /\ Rewritten("simplify_multiply_consts", mod_simplify_multiply_consts(e))

\* e = e.derivative() (derivative.rs:5-53)
ModDerivative ==
    /\ version = "modules"
    /\ ModCanWrap
    /\ Built("derivative", e, <<"derivative.rs">>, mod_derivative(e))

\* The caller that makes any public call of the module tree on e.
ModNext ==
    \/ ModAddOp \/ ModMulOp \/ ModSubOp \/ ModDivOp \/ ModNegOp \/ ModRecipOp \/ ModLnOp
    \/ ModPowOp \/ ModVecOp
    \/ ModSimplify \/ ModSimplifySingleton
    \/ ModSimplifyTerms \/ ModSimplifyZeroPow \/ ModSimplifyOnePow
    \/ ModSimplifyNegativeConsts \/ ModSimplifyDoubleNegative
    \/ ModSimplifyDistributeNegativeInSum
    \/ ModSimplifyTimesZero \/ ModSimplifyPlusZero
    \/ ModSimplifyAddConsts \/ ModSimplifyMultiplyConsts

SpecMod == ModInit /\ [][ModNext]_vars

\* The expressions built with the operators of operations.rs and the methods
\* of mod.rs alone.
OpsNext ==
    ModAddOp \/ ModMulOp \/ ModSubOp \/ ModDivOp \/ ModNegOp \/ ModRecipOp \/ ModLnOp

SpecOps == ModInit /\ [][OpsNext]_vars

\* e = e.derivative() as mod.rs defines it (mod.rs:251-307)
ModRsDerivative ==
    /\ version = "mod.rs"
    /\ ModCanWrap
    /\ Built("derivative", e, <<"mod.rs">>, modrs_derivative(e))

\* The caller is compiled with mod.rs or with the module tree.
DerivInit ==
    /\ e \in ModLeaves
    /\ inp = None
    /\ arg = None
    /\ op = "new"
    /\ out = FALSE
    /\ n = 0
    /\ version \in {"mod.rs", "modules"}

\* Expressions built with +, *, -, ln and pow, their derivatives by the
\* definition of the version, and every public rewriting call the version
\* declares (mod.rs:136-247, simplify.rs:16-201).
DerivNext ==
    \/ ModAddOp \/ ModMulOp \/ ModNegOp \/ ModLnOp \/ ModPowOp
    \/ ModDerivative \/ ModRsDerivative
    \/ ModSimplify \/ ModRsSimplify
    \/ ModSimplifyTerms \/ ModRsSimplifyTerms
    \/ ModSimplifySingleton
    \/ ModSimplifyZeroPow \/ ModSimplifyOnePow \/ ModSimplifyNegativeConsts
    \/ ModSimplifyDoubleNegative \/ ModSimplifyDistributeNegativeInSum
    \/ ModSimplifyTimesZero \/ ModSimplifyPlusZero
    \/ ModSimplifyAddConsts \/ ModSimplifyMultiplyConsts

SpecDeriv == DerivInit /\ [][DerivNext]_vars

(***************************************************************************)
(* Properties of the simplifiers (Spec, SpecMod).                          *)
(***************************************************************************)
RECURSIVE Wide(_)
\* Every Sum and every Prod node of x has at least two children.
Wide(x) ==
    CASE Tag(x) \in {"Sum", "Prod"} ->
            Len(x[2]) >= 2 /\ \A i \in 1..Len(x[2]) : Wide(x[2][i])
      [] Tag(x) = "Pow" -> Wide(x[2]) /\ Wide(x[3])
      [] Tag(x) \in {"Const", "X", "Panic", "None"} -> TRUE
      [] OTHER -> Wide(x[2])

\* C11: simplify_singleton turns an empty Sum or Prod into Const(0) and a
\* one-element Sum or Prod into that element, and when simplify returns, no
\* Sum or Prod node of the result has fewer than two children.
C11_SingletonCollapse ==
    /\ (op = "simplify_singleton" /\ Tag(inp) \in {"Sum", "Prod"}) =>
          /\ inp[2] = <<>> => e = Const(0)
          /\ Len(inp[2]) = 1 => e = inp[2][1]
    /\ (op = "simplify" /\ ~IsPanic(e)) => Wide(e)

RECURSIVE NegOperandsSimplified(_)
\* No Neg node of x has a Const, a Neg or a Sum as its operand.
NegOperandsSimplified(x) ==
    CASE Tag(x) \in {"Sum", "Prod"} ->
            \A i \in 1..Len(x[2]) : NegOperandsSimplified(x[2][i])
      [] Tag(x) = "Pow" -> NegOperandsSimplified(x[2]) /\ NegOperandsSimplified(x[3])
      [] Tag(x) \in {"Const", "X", "Panic", "None"} -> TRUE
      [] Tag(x) = "Neg" ->
            Tag(x[2]) \notin {"Const", "Neg", "Sum"} /\ NegOperandsSimplified(x[2])
      [] OTHER -> NegOperandsSimplified(x[2])

\* C13: simplify turns Neg(Const(c)) into Const(-c) and Neg(Sum(v)) into a
\* Sum of the length of v whose i-th element is the simplified negation of
\* v[i], and in its result no Neg node has a Const, a Neg or a Sum as operand.
C13_NegationIdentities ==
    op = "simplify" =>
        /\ (IsNeg(inp) /\ IsConst(inp[2])) => e = Const(-inp[2][2])
        /\ (IsNeg(inp) /\ IsSum(inp[2])) =>
              /\ IsSum(e)
              /\ Len(e[2]) = Len(inp[2][2])
              /\ \A i \in 1..Len(e[2]) : e[2][i] = mod_simplify(mod_neg(inp[2][2][i]))
        /\ NegOperandsSimplified(e)

\* C14: simplify returns a result for every expression, also for one whose
\* Sum or Prod keeps two or more children.
C14_SimplifyTotal == op = "simplify" => ~IsPanic(e)

(***************************************************************************)
(* Direct calls of the rewriting functions of lib.rs, which are public     *)
(* (tests::simplification calls them one by one, lib.rs:573-609).          *)
(***************************************************************************)
\* e.simplify_sums_in_sums() (lib.rs:355-372)
SimplifySumsInSums ==
    /\ e' = simplify_sums_in_sums(e)
    /\ inp' = e
    /\ arg' = None
    /\ op' = "simplify_sums_in_sums"
    /\ out' = FALSE
    /\ UNCHANGED <<n, version>>

\* Sums built with + and -, flattened by a call of simplify_sums_in_sums
\* (lib.rs:573-577).
SumsNext == AddOp \/ SubOp \/ NegOp \/ SimplifySumsInSums

SpecSums == Init /\ [][SumsNext]_vars

RECURSIVE NonSumTerms(_)
\* The terms of the vector v of a Sum that are not Sums, those of the Sums
\* in v included, at any depth.
NonSumTerms(v) ==
    IF v = <<>> THEN <<>>
    ELSE (IF IsSum(Head(v)) THEN NonSumTerms(Head(v)[2]) ELSE <<Head(v)>>)
         \o NonSumTerms(Tail(v))

\* The number of occurrences of x in the sequence s.
Count(s, x) == Cardinality({k \in 1..Len(s) : s[k] = x})

\* s and t hold the same elements the same number of times.
SameBag(s, t) ==
    /\ Len(s) = Len(t)
    /\ \A i \in 1..Len(s) : Count(s, s[i]) = Count(t, s[i])

\* C12: after simplify_sums_in_sums on a Sum no child of it is a Sum,
\* whatever the depth of the Sums inside Sums was, its children are the
\* non-Sum terms of the input, each as often as there, and
\* Sum[x, Sum[x, x]] becomes Sum[x, x, x].
C12_SumsFlattened ==
    (op = "simplify_sums_in_sums" /\ IsSum(inp)) =>
        /\ IsSum(e)
        /\ \A i \in 1..Len(e[2]) : ~IsSum(e[2][i])
        /\ SameBag(e[2], NonSumTerms(inp[2]))
        /\ inp = Sum(<<X, Sum(<<X, X>>)>>) => e = Sum(<<X, X, X>>)

\* simplify_sums_in_sums was called on a Sum with a Sum in a Sum among its
\* children.
C12_Witness ==
    /\ op = "simplify_sums_in_sums"
    /\ IsSum(inp)
    /\ \E i \in 1..Len(inp[2]) :
          /\ IsSum(inp[2][i])
          /\ \E j \in 1..Len(inp[2][i][2]) : IsSum(inp[2][i][2][j])

(***************************************************************************)
(* Arithmetic on Num = isize (lib.rs:10, mod.rs:9).  The functions above   *)
(* compute with exact integers; in their specifications no value leaves    *)
(* the range of Num.  The functions below are the two that the overflow    *)
(* of Num is studied on, with Num scaled to NumBits bits.  What an         *)
(* overflowing *=, or - does depends on the build: with overflow checks    *)
(* (the debug profile) it panics, without them (the release profile) it    *)
(* wraps around.                                                           *)
(***************************************************************************)
RECURSIVE Pow2(_)
Pow2(k) == IF k = 0 THEN 1 ELSE 2 * Pow2(k - 1)

\* isize::MIN and isize::MAX
MinNum == -Pow2(NumBits - 1)
MaxNum == Pow2(NumBits - 1) - 1

\* x is a value of Num.
InNum(x) == MinNum <= x /\ x <= MaxNum

\* The value of Num that the exact result x wraps around to.
WrapNum(x) == ((x - MinNum) % Pow2(NumBits)) + MinNum

Builds == {"debug", "release"}

RECURSIVE SizedMultConstsLoop(_, _, _)
\* The outer while of simplify_mult_consts (lib.rs:400-419), from index i on:
\* <<"Vec", v>> with the final vector, or Panic.
SizedMultConstsLoop(build, v, i) ==
    IF i > Len(v) THEN <<"Vec", v>>
    ELSE IF IsConst(v[i])
         THEN LET j == FirstConst(SubSeq(v, 1, i - 1))
              IN IF j # 0
                 THEN LET p == v[j][2] * v[i][2] IN
                      IF InNum(p)
                      THEN SizedMultConstsLoop(build, RemoveAt(SetAt(v, j, Const(p)), i), i)
                      ELSE IF build = "debug" THEN Panic
                      ELSE SizedMultConstsLoop(build,
                               RemoveAt(SetAt(v, j, Const(WrapNum(p))), i), i)
                 ELSE SizedMultConstsLoop(build, v, i + 1)
         ELSE SizedMultConstsLoop(build, v, i + 1)

\* simplify_mult_consts (lib.rs:399-421) in the given build.
sized_simplify_mult_consts(build, self) ==
    IF IsProd(self)
    THEN LET r == SizedMultConstsLoop(build, self[2], 2) IN
         IF IsPanic(r) THEN Panic ELSE Prod(r[2])
    ELSE self

\* simplify_negative_consts (simplify.rs:135-141) in the given build.
sized_simplify_negative_consts(build, self) ==
    IF IsNeg(self) /\ IsConst(self[2])
    THEN LET c == -self[2][2] IN
         IF InNum(c) THEN Const(c)
         ELSE IF build = "debug" THEN Panic ELSE Const(WrapNum(c))
    ELSE self

\* The literals of the caller: the ends of the range of Num and two small values.
SizedLeaves == {X} \cup {Const(c) : c \in {MinNum, -1, 2, MaxNum}}

SizedPairs == ({e} \X SizedLeaves) \cup (SizedLeaves \X {e})

SizedInit ==
    /\ e \in SizedLeaves
    /\ inp = None
    /\ arg = None
    /\ op = "new"
    /\ out = FALSE
    /\ n = 0
    /\ version \in {"lib.rs", "modules"}

\* e = a * b (lib.rs:143-158, operations.rs:21-36)
SizedMulOp ==
    /\ ~IsPanic(e) /\ n < MaxSizedOps
    /\ \E p \in SizedPairs : Built("mul", p[1], p[2], mul(p[1], p[2]))

\* e = -e (lib.rs:160-169, operations.rs:38-47)
SizedNegOp == ~IsPanic(e) /\ n < MaxSizedOps /\ Built("neg", e, None, neg(e))

\* The state after a call that rewrites e in place in the build b.
RewrittenIn(b, name, result) ==
    /\ e' = result
    /\ inp' = e
    /\ arg' = <<"build", b>>
    /\ op' = name
    /\ out' = FALSE
    /\ UNCHANGED <<n, version>>

\* e.simplify_mult_consts() (lib.rs:399-421), in either build
SizedSimplifyMultConsts ==
    /\ version = "lib.rs"
    /\ ~IsPanic(e)
    /\ \E b \in Builds :
          RewrittenIn(b, "simplify_mult_consts", sized_simplify_mult_consts(b, e))

\* e.simplify_negative_consts() (simplify.rs:135-141), in either build
SizedSimplifyNegativeConsts ==
    /\ version = "modules"
    /\ ~IsPanic(e)
    /\ \E b \in Builds :
          RewrittenIn(b, "simplify_negative_consts", sized_simplify_negative_consts(b, e))

SizedNext ==
    SizedMulOp \/ SizedNegOp \/ SizedSimplifyMultConsts \/ SizedSimplifyNegativeConsts

SpecSized == SizedInit /\ [][SizedNext]_vars

RECURSIVE ProductLeavesNum(_, _)
\* Multiplying acc by the constants of v one after the other leaves the
\* range of Num at some step.
ProductLeavesNum(acc, v) ==
    IF v = <<>> THEN FALSE
    ELSE IF IsConst(Head(v))
         THEN ~InNum(acc * Head(v)[2]) \/ ProductLeavesNum(acc * Head(v)[2], Tail(v))
         ELSE ProductLeavesNum(acc, Tail(v))

\* C15: when the multiplication of the constants of a Prod or the negation
\* of a Const leaves the range of Num, the call fails visibly: it does not
\* return a tree.
C15_OverflowReported ==
    /\ (op = "simplify_mult_consts" /\ IsProd(inp) /\ ProductLeavesNum(1, inp[2]))
          => IsPanic(e)
    /\ (op = "simplify_negative_consts" /\ IsNeg(inp) /\ IsConst(inp[2])
            /\ ~InNum(-inp[2][2]))
          => IsPanic(e)

(***************************************************************************)
(* Properties of the operators of operations.rs and of recip (SpecOps).    *)
(***************************************************************************)
\* C16: self + rhs appends rhs to the children of a Sum self, does not wrap
\* a Sum rhs as a child of a new node either, and is Sum[self, rhs] when
\* neither operand is a Sum; likewise self * rhs with Prod.
C16_FlattenEitherOperand ==
    /\ op = "add" =>
          /\ IsSum(inp) => e = Sum(Append(inp[2], arg))
          /\ (~IsSum(inp) /\ IsSum(arg)) => ~Contains(e[2], arg)
          /\ (~IsSum(inp) /\ ~IsSum(arg)) => e = Sum(<<inp, arg>>)
    /\ op = "mul" =>
          /\ IsProd(inp) => e = Prod(Append(inp[2], arg))
          /\ (~IsProd(inp) /\ IsProd(arg)) => ~Contains(e[2], arg)
          /\ (~IsProd(inp) /\ ~IsProd(arg)) => e = Prod(<<inp, arg>>)

\* C17: in every expression built from Const and X leaves with +, -, *, /,
\* unary negation, their compound-assignment forms and the overloads with an
\* integer operand, every Sum and every Prod node has at least two children.
C17_BuiltNodesWide == Wide(e)

\* A product built in two or more calls that holds a Sum.
C17_Witness ==
    /\ n >= 2
    /\ IsProd(e)
    /\ \E i \in 1..Len(e[2]) : IsSum(e[2][i])

\* The reciprocal of b: Pow(x, -y) for b = Pow(x, y), -y being y without its
\* Neg or y in a Neg, and Pow(b, Const(-1)) for any other b.
Reciprocal(b) ==
    IF IsPow(b)
    THEN Pow(b[2], IF IsNeg(b[3]) THEN b[3][2] ELSE Neg(b[3]))
    ELSE Pow(b, Const(-1))

\* C18: a / b is a * recip(b), and recip(Pow(x, y)) is Pow(x, -y) with -y
\* built by the negation constructor (a Neg exponent is unwrapped), recip(b)
\* is Pow(b, Const(-1)) for any other b.
C18_DivisionByReciprocal ==
    /\ op = "div" => e = mod_mul(inp, Reciprocal(arg))
    /\ op = "recip" => e = Reciprocal(inp)

(***************************************************************************)
(* Properties of derivative (SpecDeriv).                                   *)
(***************************************************************************)
\* derivative as the version of the caller defines it.
DerivativeBy(x) ==
    IF version = "mod.rs" THEN modrs_derivative(x) ELSE mod_derivative(x)

\* C19: the derivative of Prod(v) with two or more factors is
\* a * derivative(b) + b * derivative(a) with a = v[0] and b = Prod(v[1..]),
\* the recursion ending at a tail of one factor, whose derivative is that
\* of the factor.
C19_ProductRule ==
    (op = "derivative" /\ IsProd(inp) /\ Len(inp[2]) >= 2) =>
        LET a == Head(inp[2])
            b == Prod(Tail(inp[2]))
            da == DerivativeBy(a)
            db == IF Len(Tail(inp[2])) = 1 THEN DerivativeBy(Head(Tail(inp[2])))
                  ELSE DerivativeBy(b)
        IN  /\ ~IsPanic(e)
            /\ e = mod_add(mod_mul(a, db), mod_mul(b, da))

\* C20: the derivative of Pow(a, Const(c)) is Const(0) for c = 0, the
\* derivative of a for c = 1 and otherwise c * Pow(a, c - 1) * derivative(a),
\* the last factor being the derivative of the base a.
C20_PowerRule ==
    (op = "derivative" /\ IsPow(inp) /\ IsConst(inp[3])
        /\ ~IsPanic(DerivativeBy(inp[2]))) =>
        LET a == inp[2]
            c == inp[3]
            da == DerivativeBy(a)
        IN  /\ c = Const(0) => e = Const(0)
            /\ c = Const(1) => e = da
            /\ c \notin {Const(0), Const(1)} =>
                  e = mod_mul(mod_mul(c, Pow(a, mod_sub(c, Const(1)))), da)

(***************************************************************************)
(* The state machine for the function variants: a caller builds e from X   *)
(* and constants with Expr::Pow and the variants Neg .. Arctan written     *)
(* directly (mod.rs:24-40), differentiates it and simplifies the result,   *)
(* with the derivative and the simplify of the version it is compiled      *)
(* with.  It may also start from Expr::Sum(vec![Expr::X]) and call         *)
(* simplify_singleton or simplify_terms (tests::simplification,            *)
(* mod.rs:323-328).                                                        *)
(***************************************************************************)
FnConstVals == {0, 1, 3, 5}

FnLeaves == {X} \cup {Const(c) : c \in FnConstVals}

\* The operands of a power: e and a leaf, in either order.
FnPairs == ({e} \X FnLeaves) \cup (FnLeaves \X {e})

FnNames == {"Neg", "Ln", "Sin", "Cos", "Arcsin", "Arccos", "Arctan"}

FnInit ==
    /\ e \in FnLeaves \cup {Sum(<<X>>)}
    /\ inp = None
    /\ arg = None
    /\ op = "new"
    /\ out = FALSE
    /\ n = 0
    /\ version \in {"mod.rs", "modules"}

\* The guard of a call.
FnCanCall == ~IsPanic(e) /\ n < MaxFnOps

\* e = Expr::Pow(Box::new(a), Box::new(b)) (mod.rs:26-27)
FnPowOp == FnCanCall /\ \E p \in FnPairs : Built("pow", p[1], p[2], Pow(p[1], p[2]))

\* e = Expr::Neg(Box::new(e)), e = Expr::Ln(Box::new(e)), ...,
\* e = Expr::Arctan(Box::new(e)) (mod.rs:24-25, 28-40)
FnWrapOp == FnCanCall /\ \E f \in FnNames : Built("fn", e, None, <<f, e>>)

\* e = e.derivative() (derivative.rs:5-53)
FnDerivative ==
    /\ version = "modules"
    /\ FnCanCall
    /\ Built("derivative", e, <<"derivative.rs">>, mod_derivative(e))

\* e = e.derivative() as mod.rs defines it (mod.rs:251-307)
FnRsDerivative ==
    /\ version = "mod.rs"
    /\ FnCanCall
    /\ Built("derivative", e, <<"mod.rs">>, modrs_derivative(e))

FnNext ==
    \/ FnPowOp \/ FnWrapOp
    \/ FnRsDerivative \/ FnDerivative
    \/ ModRsSimplify \/ ModSimplify
    \/ ModRsSimplifyTerms \/ ModSimplifyTerms
    \/ ModSimplifySingleton
    \/ ModSimplifyZeroPow \/ ModSimplifyOnePow \/ ModSimplifyNegativeConsts
    \/ ModSimplifyDoubleNegative \/ ModSimplifyDistributeNegativeInSum
    \/ ModSimplifyTimesZero \/ ModSimplifyPlusZero
    \/ ModSimplifyAddConsts \/ ModSimplifyMultiplyConsts

SpecFn == FnInit /\ [][FnNext]_vars

(***************************************************************************)
(* Properties of the derivatives of powers and functions (SpecFn).         *)
(***************************************************************************)
\* simplify as the version of the caller defines it.
SimplifyBy(x) == IF version = "mod.rs" THEN modrs_simplify(x) ELSE mod_simplify(x)

\* C21: the simplified derivative of Pow(X, Const(3)) is the simplified
\* Const(3) * Pow(X, Const(2)), the simplified derivative of Sin(X) is
\* Cos(X), and the derivative of Const(5) is Const(0).
C21_DerivativeNormalForm ==
    (op = "derivative" /\ ~IsPanic(e)) =>
        /\ inp = Pow(X, Const(3)) =>
              SimplifyBy(e) = SimplifyBy(mod_mul(Const(3), Pow(X, Const(2))))
        /\ inp = Sin(X) => SimplifyBy(e) = Cos(X)
        /\ inp = Const(5) => e = Const(0)

\* One half, as the code writes it: Expr::Const(1) / 2.
Half == mod_div(Const(1), Const(2))

\* The trees that stand for (1 - x^2)^(-1/2): the base 1 - x^2 with the
\* exponent -(1/2) or (-1)/2, or the reciprocal of its square root.
InverseRoots(x) ==
    LET b == mod_sub(Const(1), Pow(x, Const(2))) IN
    {Pow(b, Neg(Half)), Pow(b, mod_div(Const(-1), Const(2))), Pow(Pow(b, Half), Const(-1))}

\* C22: the derivative of Arcsin(x) is the product of derivative(x) and
\* (1 - x^2)^(-1/2), in either order, and the derivative of Arccos(x) is the
\* product of derivative(x) and the negation of that term, or the negation
\* of the product.
C22_InverseSineRule ==
    (op = "derivative" /\ Tag(inp) \in {"Arcsin", "Arccos"}
        /\ ~IsPanic(DerivativeBy(inp[2]))) =>
        LET d == DerivativeBy(inp[2]) IN
        \E t \in InverseRoots(inp[2]) :
            /\ Tag(inp) = "Arcsin" => e \in {mod_mul(d, t), mod_mul(t, d)}
            /\ Tag(inp) = "Arccos" =>
                  e \in {mod_mul(d, Neg(t)), mod_mul(Neg(t), d),
                         Neg(mod_mul(d, t)), Neg(mod_mul(t, d))}

(***************************************************************************)
(* Totality of derivative (SpecDeriv).                                     *)
(***************************************************************************)
\* C24: derivative returns a tree for every expression: it reads no element
\* of an empty vector, also not in the tail products that the product rule
\* itself builds.
C24_DerivativeTotal == op = "derivative" => ~IsPanic(e)

(***************************************************************************)
(* The loops of the rewriting functions of lib.rs, one iteration at a      *)
(* time.  While a function runs, op is its name, e is self, inp is self at *)
(* the call and arg is <<pc, i, j>>: the position in the function and the  *)
(* values of its index variables i and j (indices count from 0, as in the  *)
(* code; the vector element v[i] of the code is At(v, i)).                 *)
(*   "outer"  at the test of the outer while                               *)
(*   "inner"  at the test of the inner while                               *)
(*   "inc"    at the i += 1 that ends an iteration of the outer while      *)
(*   "done"   the function has returned                                    *)
(***************************************************************************)
\* v[i] of the code.
At(v, i) == v[i + 1]

\* if let Expr::Sum(v) = self, if let Expr::Prod(v) = self: whether the body
\* of function f runs on self.
LoopApplies(f, self) ==
    IF f \in {"simplify_sums_in_sums", "simplify_apply_sums"} THEN IsSum(self) ELSE IsProd(self)

\* let mut i = 0, let mut i = 1: the first value of i in function f.
LoopStart(f) ==
    IF f \in {"simplify_sums_in_sums", "simplify_cancel_fracs"} THEN 0 ELSE 1

\* The test in the body of the inner while of function f.
LoopFires(f, v, i, j) ==
    CASE f = "simplify_apply_sums" -> like_terms_with(At(v, i), At(v, j))
      [] f = "simplify_mult_consts" -> IsConst(At(v, j))
      [] f = "simplify_mult_pows" -> PowsMatch(v, i + 1, j + 1)
      [] f = "simplify_cancel_fracs" -> At(v, i) = recip(At(v, j))

\* simplify_cancel_fracs that removes v[j] alone before it appends Const(1).
LoopFiredKeeping(f, v, i, j) ==
    CASE f = "simplify_apply_sums" ->
            RemoveAt(SetAt(v, j + 1, add_like_term(At(v, j), At(v, i))), i + 1)
      [] f = "simplify_mult_consts" ->
            RemoveAt(SetAt(v, j + 1, Const(At(v, j)[2] * At(v, i)[2])), i + 1)
      [] f = "simplify_mult_pows" ->
            RemoveAt(SetAt(v, j + 1, PowsMerge(v, i + 1, j + 1)), i + 1)
      [] f = "simplify_cancel_fracs" ->
            Append(RemoveAt(v, j + 1), Const(1))

\* The vector after the body of the inner while of function f has found its
\* match: v[j] takes up v[i] and v[i] is removed, or, in
\* simplify_cancel_fracs, v[j] and v[i] are removed and Const(1) is appended.
LoopFired(f, v, i, j) ==
    CASE f = "simplify_apply_sums" ->
            RemoveAt(SetAt(v, j + 1, add_like_term(At(v, j), At(v, i))), i + 1)
      [] f = "simplify_mult_consts" ->
            RemoveAt(SetAt(v, j + 1, Const(At(v, j)[2] * At(v, i)[2])), i + 1)
      [] f = "simplify_mult_pows" ->
            RemoveAt(SetAt(v, j + 1, PowsMerge(v, i + 1, j + 1)), i + 1)
      [] f = "simplify_cancel_fracs" ->
            Append(RemoveAt(RemoveAt(v, j + 1), i + 1), Const(1))

\* The caller's next call: e = a + b, e = a * b, e = a / b.
LoopAddOp ==
    ~Running /\ n < MaxLoopOps /\ \E p \in Pairs : Built("add", p[1], p[2], add(p[1], p[2]))

LoopMulOp ==
    ~Running /\ n < MaxLoopOps /\ \E p \in Pairs : Built("mul", p[1], p[2], mul(p[1], p[2]))

LoopDivOp ==
    ~Running /\ n < MaxLoopOps /\ \E p \in Pairs : Built("div", p[1], p[2], div(p[1], p[2]))

\* The state after one step of the running function.
LoopStep(self, pc, i, j) ==
    /\ e' = self
    /\ arg' = <<pc, i, j>>
    /\ UNCHANGED <<inp, op, out, n, version>>

\* The call of one of the functions on e.
LoopEnter ==
    /\ ~Running
    /\ \E f \in LoopNames :
        /\ op' = f
        /\ arg' = <<IF LoopApplies(f, e) THEN "outer" ELSE "done", LoopStart(f), 0>>
    /\ inp' = e
    /\ UNCHANGED <<e, out, n, version>>

\* The test of the outer while and what follows it up to the inner while.
LoopOuter ==
    /\ Running
    /\ arg[1] = "outer"
    /\ LET v == e[2]
           i == arg[2]
       IN  IF i < Len(v)
           THEN CASE op = "simplify_sums_in_sums" ->
                        IF IsSum(At(v, i))
                        THEN LoopStep(Sum(RemoveAt(v \o At(v, i)[2], i + 1)), "outer", i, 0)
                        ELSE LoopStep(e, "outer", i + 1, 0)
                  [] op = "simplify_mult_consts" ->
                        IF IsConst(At(v, i))
                        THEN LoopStep(e, "inner", i, 0)
                        ELSE LoopStep(e, "outer", i + 1, 0)
                  [] op = "simplify_cancel_fracs" -> LoopStep(e, "inner", i, i + 1)
                  [] OTHER -> LoopStep(e, "inner", i, 0)
           ELSE LoopStep(e, "done", i, arg[3])

\* The test of the inner while and one run of its body.
LoopInner ==
    /\ Running
    /\ arg[1] = "inner"
    /\ LET v == e[2]
           i == arg[2]
           j == arg[3]
       IN  IF op = "simplify_cancel_fracs"
           THEN IF j < Len(v)
                THEN IF LoopFires(op, v, i, j)
                     THEN LoopStep(Prod(LoopFired(op, v, i, j)), "outer", i, j)
                     ELSE LoopStep(e, "inner", i, j + 1)
                ELSE LoopStep(e, "outer", i + 1, j)
           ELSE IF j < i
                THEN IF LoopFires(op, v, i, j)
                     THEN LoopStep(<<Tag(e), LoopFired(op, v, i, j)>>, "inc", i - 1, j)
                     ELSE LoopStep(e, "inner", i, j + 1)
                ELSE LoopStep(e, "inc", i, j)

\* i += 1 at the end of the outer while's body.
LoopInc ==
    /\ Running
    /\ arg[1] = "inc"
    /\ LoopStep(e, "outer", arg[2] + 1, arg[3])

LoopNext ==
    \/ LoopAddOp \/ LoopMulOp \/ LoopDivOp
    \/ LoopEnter \/ LoopOuter \/ LoopInner \/ LoopInc
    \/ SimplifySingleton

\* A function that was called runs on: its next step is taken.
SpecLoop == Init /\ [][LoopNext]_vars /\ WF_vars(LoopOuter \/ LoopInner \/ LoopInc)

(***************************************************************************)
(* Termination of the loops (SpecLoop).                                    *)
(***************************************************************************)
RECURSIVE NodesOf(_), NodesIn(_)
\* The number of nodes of the tree x, and of the trees of the vector v.
NodesOf(x) ==
    CASE Tag(x) \in {"Sum", "Prod"} -> 1 + NodesIn(x[2])
      [] Tag(x) = "Pow" -> 1 + NodesOf(x[2]) + NodesOf(x[3])
      [] Tag(x) \in {"Const", "X"} -> 1
      [] OTHER -> 1 + NodesOf(x[2])

NodesIn(v) == IF v = <<>> THEN 0 ELSE NodesOf(Head(v)) + NodesIn(Tail(v))

RECURSIVE NestedSums(_)
\* The number of Sum nodes that are elements of v or elements of such a Sum.
NestedSums(v) ==
    IF v = <<>> THEN 0
    ELSE (IF IsSum(Head(v)) THEN 1 + NestedSums(Head(v)[2]) ELSE 0) + NestedSums(Tail(v))

\* What is left to do of the outer while: twice the number of children (for
\* simplify_sums_in_sums, of nodes) still there, less the index reached.
LoopRest ==
    (IF op = "simplify_sums_in_sums" THEN 2 * NodesIn(e[2]) ELSE 2 * Len(e[2])) + 1 - arg[2]

\* More than the number of steps of one iteration of the outer while.
LoopWidth == NodesOf(inp) + 4

\* The variant of the running function: a natural number that every step
\* makes smaller.
LoopVariant ==
    CASE arg[1] = "outer" -> LoopRest * LoopWidth + LoopWidth - 1
      [] arg[1] = "inner" -> LoopRest * LoopWidth + LoopWidth - 2 - arg[3]
      [] arg[1] = "inc" -> LoopRest * LoopWidth
      [] arg[1] = "done" -> 0

\* C25: every loop of the rewriting functions ends: a running function
\* returns, each of its steps makes a natural-number variant strictly
\* smaller, each step that changes the vector leaves it with fewer children
\* or fewer nested Sums, and the indices i and j never go below zero.
C25_LoopsTerminate ==
    /\ Running ~> ~Running
    /\ [][(op' \in LoopNames /\ LoopApplies(op', e')) =>
            /\ arg'[2] >= 0
            /\ arg'[3] >= 0
            /\ LoopVariant' >= 0
            /\ Running =>
                  /\ LoopVariant' < LoopVariant
                  /\ e' # e =>
                        \/ Len(e'[2]) < Len(e[2])
                        \/ NestedSums(e'[2]) < NestedSums(e[2])]_vars

\* A function has returned after its loop removed two or more children.
C25_Witness ==
    /\ op \in LoopNames \ {"simplify_sums_in_sums"}
    /\ arg[1] = "done"
    /\ LoopApplies(op, inp)
    /\ Len(e[2]) + 2 <= Len(inp[2])

\* When a function has returned, self is what the function computes.
LoopResult ==
    (op \in LoopNames /\ arg[1] = "done") =>
        e = CASE op = "simplify_sums_in_sums" -> simplify_sums_in_sums(inp)
              [] op = "simplify_apply_sums" -> simplify_apply_sums(inp)
              [] op = "simplify_mult_consts" -> simplify_mult_consts(inp)
              [] op = "simplify_mult_pows" -> simplify_mult_pows(inp)
              [] op = "simplify_cancel_fracs" -> simplify_cancel_fracs(inp)

(***************************************************************************)
(* to_latex (latex.rs:7-82).  A String is a TLA+ string; n.to_string() is  *)
(* the decimal numeral of n with a leading - for a negative n.             *)
(***************************************************************************)
RECURSIVE mod_to_latex(_), LatexSumRest(_), LatexProdRest(_)

\* for e in v.iter().skip(1) of the Sum arm (latex.rs:15-21): the text the
\* elements of v add.
LatexSumRest(v) ==
    IF v = <<>> THEN ""
    ELSE (IF IsNeg(Head(v))
          THEN "-" \o mod_to_latex(Head(v)[2])
          ELSE "+" \o mod_to_latex(Head(v))) \o LatexSumRest(Tail(v))

\* for e in v.iter().skip(1) of the Prod arm (latex.rs:35-49): the text the
\* elements of v add.
LatexProdRest(v) ==
    IF v = <<>> THEN ""
    ELSE (IF Tag(Head(v)) \in {"Sum", "Const", "Neg"}
          THEN IF Head(v) = Const(1) THEN ""
               ELSE "(" \o mod_to_latex(Head(v)) \o ")"
          ELSE mod_to_latex(Head(v))) \o LatexProdRest(Tail(v))

\* self.to_latex(), for a tree without an empty Sum or Prod
mod_to_latex(self) ==
    CASE IsConst(self) -> ToString(self[2])
      [] Tag(self) = "X" -> "x"
      [] IsNeg(self) -> "-(" \o mod_to_latex(self[2]) \o ")"
      [] IsSum(self) -> mod_to_latex(Head(self[2])) \o LatexSumRest(Tail(self[2]))
      [] IsProd(self) ->
            (IF Head(self[2]) = Const(1) THEN ""
             ELSE IF Tag(Head(self[2])) \in {"Sum", "Const", "Neg"}
                  THEN "(" \o mod_to_latex(Head(self[2])) \o ")"
                  ELSE mod_to_latex(Head(self[2])))
            \o LatexProdRest(Tail(self[2]))
      [] IsPow(self) ->
            (IF Tag(self[2]) \in {"Sum", "Prod", "Neg"}
             THEN "(" \o mod_to_latex(self[2]) \o ")"
             ELSE mod_to_latex(self[2]))
            \o "^{" \o mod_to_latex(self[3]) \o "}"
      [] Tag(self) = "Ln" -> "ln(" \o mod_to_latex(self[2]) \o ")"
      [] Tag(self) = "Sin" -> "sin(" \o mod_to_latex(self[2]) \o ")"
      [] Tag(self) = "Cos" -> "cos(" \o mod_to_latex(self[2]) \o ")"
      [] Tag(self) = "Arcsin" -> "arcsin(" \o mod_to_latex(self[2]) \o ")"
      [] Tag(self) = "Arccos" -> "arccos(" \o mod_to_latex(self[2]) \o ")"
      [] Tag(self) = "Arctan" -> "arctan(" \o mod_to_latex(self[2]) \o ")"

RECURSIVE LatexPanics(_)
\* v[0] of the Sum and Prod arms (latex.rs:14, 25) on an empty vector: self
\* holds a Sum or Prod without elements.
LatexPanics(self) ==
    CASE Tag(self) \in {"Sum", "Prod"} ->
            self[2] = <<>> \/ \E i \in 1..Len(self[2]) : LatexPanics(self[2][i])
      [] Tag(self) = "Pow" -> LatexPanics(self[2]) \/ LatexPanics(self[3])
      [] Tag(self) \in {"Const", "X"} -> FALSE
      [] OTHER -> LatexPanics(self[2])

\* The caller of tests::latex (latex.rs:89-96): it starts from a leaf or from
\* the product Expr::X * Expr::Const(5) of line 91.
LatexInit ==
    /\ e \in ModLeaves \cup {mod_mul(X, Const(5))}
    /\ inp = None
    /\ arg = None
    /\ op = "new"
    /\ out = FALSE
    /\ n = 0
    /\ version = "modules"

\* out = e.to_latex() (latex.rs:7-82)
ToLatex ==
    /\ ~IsPanic(e)
    /\ inp' = e
    /\ arg' = None
    /\ op' = "to_latex"
    /\ IF LatexPanics(e)
       THEN e' = Panic /\ out' = FALSE
       ELSE e' = e /\ out' = mod_to_latex(e)
    /\ UNCHANGED <<n, version>>

LatexNext ==
    \/ ModAddOp \/ ModMulOp \/ ModSubOp \/ ModDivOp \/ ModNegOp
    \/ ToLatex

SpecLatex == LatexInit /\ [][LatexNext]_vars

(***************************************************************************)
(* Properties of to_latex (SpecLatex).                                     *)
(***************************************************************************)
RECURSIVE Grouped(_), GroupedSumRest(_), GroupedProdRest(_)
\* The terms of a Sum after the first: +t, and -y for a term Neg(y), y in
\* parentheses when it is itself a Sum.
GroupedSumRest(v) ==
    IF v = <<>> THEN ""
    ELSE (IF IsNeg(Head(v))
          THEN "-" \o (IF IsSum(Head(v)[2])
                       THEN "(" \o Grouped(Head(v)[2]) \o ")"
                       ELSE Grouped(Head(v)[2]))
          ELSE "+" \o Grouped(Head(v))) \o GroupedSumRest(Tail(v))

\* The factors of a Prod after the first: a Sum, a Neg or a constant in
\* parentheses (a constant 1 is left out), any other factor as it is.
GroupedProdRest(v) ==
    IF v = <<>> THEN ""
    ELSE (IF Head(v) = Const(1) THEN ""
          ELSE IF Tag(Head(v)) \in {"Sum", "Neg", "Const"}
               THEN "(" \o Grouped(Head(v)) \o ")"
               ELSE Grouped(Head(v))) \o GroupedProdRest(Tail(v))

\* The text of x that keeps its grouping.
Grouped(x) ==
    CASE IsConst(x) -> ToString(x[2])
      [] Tag(x) = "X" -> "x"
      [] IsNeg(x) -> "-(" \o Grouped(x[2]) \o ")"
      [] IsSum(x) -> Grouped(Head(x[2])) \o GroupedSumRest(Tail(x[2]))
      [] IsProd(x) -> GroupedProdRest(x[2])
      [] IsPow(x) ->
            (IF Tag(x[2]) \in {"Sum", "Prod", "Neg"}
             THEN "(" \o Grouped(x[2]) \o ")"
             ELSE Grouped(x[2]))
            \o "^{" \o Grouped(x[3]) \o "}"

\* C23: to_latex keeps the grouping: a Sum or Neg that is a factor of a Prod
\* or the base of a Pow, and a Prod that is the base of a Pow, is in
\* parentheses (the exponent of a Pow is inside the braces of ^{}); a term
\* Neg(y) of a Sum is written - followed by y, with y in parentheses when y
\* is a Sum; a Const(1) at the head of a Prod is left out; and
\* (x + x*5) / x is written (x+x(5))x^{-1}.
C23_GroupingKept ==
    (op = "to_latex" /\ ~IsPanic(e)) =>
        /\ out = Grouped(inp)
        /\ inp = mod_div(mod_add(X, mod_mul(X, Const(5))), X) => out = "(x+x(5))x^{-1}"

====
